---- MODULE Spec2Model ----
(***************************************************************************)
(* Model of the ATT&CK knowledge-graph query layer (main.py): the AttackKG *)
(* class (driver handle, scoped session per query, result materializer),   *)
(* the catalog of Cypher queries A1..E3 evaluated over a property graph,   *)
(* and the demo() driver.                                                  *)
(*                                                                         *)
(* Strings are sequences of character codes, so that toLower, CONTAINS and *)
(* ORDER BY are computed and not assumed. The graph database is external:  *)
(* its content is chosen in Init and never changed by this layer.          *)
(***************************************************************************)
EXTENDS Integers, Sequences, FiniteSets, TLC

VARIABLES
    graph,      \* the property graph held by the database (read-only here)
    driver,     \* AttackKG.driver: "none" | "open" | "closed"
    closes,     \* number of driver.close() calls so far
    sessions,   \* number of sessions currently open
    pc,         \* position inside the running catalog call
    call,       \* the running (or last) catalog call: entry, params, query index
    opens,      \* sessions opened by the current query() invocation
    runs,       \* s.run() attempts made by the current query() invocation
    res,        \* records produced by s.run() (the result stream)
    err,        \* exception in flight ("none" when there is none)
    raised,     \* the exception as raised by the database for this query()
    df,         \* DataFrame built by df_from_result for the current query()
    rets,       \* DataFrames already returned by query() to the catalog method
    out,        \* what the caller of the catalog method received
    demoPc,     \* demo(): index of the next catalog entry (0: demo not running)
    log         \* demo(): entries invoked so far, in order

vars == <<graph, driver, closes, sessions, pc, call, opens, runs, res, err,
          raised, df, rets, out, demoPc, log>>

-----------------------------------------------------------------------------
(* Bounds of the model *)

\* longest chain of generic relations between the two groups of a chain graph
MaxChain == 7
\* a wide graph has up to LIMIT + MaxOver techniques used by one group
MaxOver == 1
\* largest value of the caller-supplied row limit of C3
MaxLimit == 2

-----------------------------------------------------------------------------
(* Strings: sequences of character codes *)

NULL == <<-1>>          \* the null property value (no string contains -1)
NULLLIST == <<NULL>>    \* a null list-valued property
NullTime == -1          \* a null timestamp

IsNull(s) == s = NULL

ToLowerChar(c) == IF c >= 65 /\ c <= 90 THEN c + 32 ELSE c
ToUpperChar(c) == IF c >= 97 /\ c <= 122 THEN c - 32 ELSE c

\* Cypher toLower(): null stays null
ToLower(s) == IF IsNull(s) THEN NULL ELSE [i \in 1..Len(s) |-> ToLowerChar(s[i])]
ToUpper(s) == IF IsNull(s) THEN NULL ELSE [i \in 1..Len(s) |-> ToUpperChar(s[i])]
\* a mixed-case spelling: odd positions upper, even positions lower
ToMixed(s) == IF IsNull(s) THEN NULL
              ELSE [i \in 1..Len(s) |->
                      IF i % 2 = 1 THEN ToUpperChar(s[i]) ELSE ToLowerChar(s[i])]

\* Cypher `a CONTAINS b` used as a WHERE predicate: null counts as not matching
Contains(a, b) ==
    /\ ~IsNull(a)
    /\ ~IsNull(b)
    /\ \E k \in 0..(Len(a) - Len(b)) :
          \A i \in 1..Len(b) : a[k + i] = b[i]

\* Cypher `a = b` used as a WHERE predicate
StrEq(a, b) == ~IsNull(a) /\ ~IsNull(b) /\ a = b

\* string order of ORDER BY ... ASC: code-point lexicographic, null last
StrLess(a, b) ==
    IF IsNull(a) THEN FALSE
    ELSE IF IsNull(b) THEN TRUE
    ELSE \/ /\ Len(a) < Len(b)
            /\ \A i \in 1..Len(a) : a[i] = b[i]
         \/ \E k \in 1..Len(a) :
              /\ k <= Len(b)
              /\ a[k] < b[k]
              /\ \A i \in 1..(k - 1) : a[i] = b[i]

\* order of stix_type strings in ORDER BY kind (B2): 'malware' < 'tool'
KindLess(a, b) == a = "malware" /\ b = "tool"

Min(a, b) == IF a < b THEN a ELSE b

-----------------------------------------------------------------------------
(* Row sequences: what the clauses of a Cypher query do to them *)

\* lexicographic order on equal-length tuples of integers
TupLess(a, b) ==
    \E k \in 1..Len(a) : a[k] < b[k] /\ \A i \in 1..(k - 1) : a[i] = b[i]

\* The rows of a MATCH come out in an engine-chosen order: the set of bindings
\* (tuples of node/relation ids) enumerated ascending or descending.
SeqOfSet(S, ord) ==
    LET n == Cardinality(S)
        rank == [x \in S |-> Cardinality({y \in S :
                     IF ord = "asc" THEN TupLess(y, x) ELSE TupLess(x, y)})]
    IN [k \in 1..n |-> CHOOSE x \in S : rank[x] = k - 1]

\* ORDER BY: the rows sorted by Less, rows of equal key keeping engine order
StableSort(s, Less(_, _)) ==
    LET n == Len(s)
        pos == [i \in 1..n |-> 1 + Cardinality({j \in 1..n :
                   \/ Less(s[j], s[i])
                   \/ (~Less(s[i], s[j]) /\ j < i)})]
    IN [k \in 1..n |-> s[CHOOSE i \in 1..n : pos[i] = k]]

\* LIMIT n
Limit(s, n) == SubSeq(s, 1, Min(n, Len(s)))

\* the list slice l[0..n]
Slice(s, n) == SubSeq(s, 1, Min(n, Len(s)))

\* distinct values of a sequence in order of first occurrence
\* (grouping keys, collect(DISTINCT ...))
Distinct(s) ==
    LET idx == {i \in 1..Len(s) : \A j \in 1..(i - 1) : s[j] # s[i]}
    IN [k \in 1..Cardinality(idx) |->
           s[CHOOSE i \in idx : Cardinality({j \in idx : j < i}) = k - 1]]

\* the elements of s that satisfy Test, in order
Filter(s, Test(_)) ==
    LET idx == {i \in 1..Len(s) : Test(s[i])}
    IN [k \in 1..Cardinality(idx) |->
           s[CHOOSE i \in idx : Cardinality({j \in idx : j < i}) = k - 1]]

Range(s) == {s[i] : i \in 1..Len(s)}

-----------------------------------------------------------------------------
(* The property graph: nodes with optional properties, directed relations *)

\* A node; label "Attack" is what every query matches on (n:Attack)
Node(st, nm) ==
    [label |-> "Attack", stix_type |-> st, name |-> nm, shortname |-> NULL,
     platforms |-> NULLLIST, domains |-> NULLLIST,
     deprecated |-> "null", revoked |-> "null", modified |-> NullTime]

\* A generic typed relation (:ATTACK_REL {rel_type}) and the structural
\* tactic-membership relation (:IN_TACTIC)
Rel(rt, a, b) == [type |-> "ATTACK_REL", rel_type |-> rt, src |-> a, dst |-> b]
InTactic(a, b) == [type |-> "IN_TACTIC", rel_type |-> "null", src |-> a, dst |-> b]

Nodes == 1..Len(graph.nodes)
Rels == 1..Len(graph.rels)

\* (n:Attack)
Attack == {n \in Nodes : graph.nodes[n].label = "Attack"}
\* (n:Attack {stix_type: st})
OfType(st) == {n \in Attack : graph.nodes[n].stix_type = st}
\* (s:Attack) WHERE s.stix_type IN ['tool','malware']
Software == OfType("tool") \cup OfType("malware")

Src(r) == IF r = 0 THEN 0 ELSE graph.rels[r].src
Dst(r) == IF r = 0 THEN 0 ELSE graph.rels[r].dst
\* property access on a possibly null (0) binding
Name(n) == IF n = 0 THEN NULL ELSE graph.nodes[n].name
Shortname(n) == IF n = 0 THEN NULL ELSE graph.nodes[n].shortname

\* ()-[r:ATTACK_REL]->()
AttackRels == {r \in Rels : graph.rels[r].type = "ATTACK_REL"}

\* (n)-[:ATTACK_REL {rel_type: rt}]->(m), m in the node set T
OutRels(n, rt, T) ==
    {r \in AttackRels : /\ graph.rels[r].rel_type = rt
                        /\ graph.rels[r].src = n
                        /\ graph.rels[r].dst \in T}
\* (m)-[:ATTACK_REL {rel_type: rt}]->(n), m in the node set T
InRels(n, rt, T) ==
    {r \in AttackRels : /\ graph.rels[r].rel_type = rt
                        /\ graph.rels[r].dst = n
                        /\ graph.rels[r].src \in T}
\* (tech)-[:IN_TACTIC]->(tac:Attack {stix_type:'x-mitre-tactic'})
TacticRels(t) ==
    {r \in Rels : /\ graph.rels[r].type = "IN_TACTIC"
                  /\ graph.rels[r].src = t
                  /\ graph.rels[r].dst \in OfType("x-mitre-tactic")}

\* OPTIONAL MATCH: one null binding when nothing matches
Opt(S) == IF S = {} THEN {0} ELSE S

\* coalesce(v, false) on a nullable boolean
CoalesceFalse(v) == IF v = "null" THEN FALSE ELSE v = "true"
\* coalesce(l, []) on a nullable list
CoalesceList(l) == IF l = NULLLIST THEN <<>> ELSE l

\* (mutant) the filter compared as given, without toLower
GroupsMatching_cased(f) ==
    {g \in OfType("intrusion-set") : Contains(ToLower(Name(g)), f)}

\* MATCH (grp:Attack {stix_type:'intrusion-set'}) WHERE toLower(grp.name) CONTAINS toLower($f)
GroupsMatching(f) ==
    {g \in OfType("intrusion-set") : Contains(ToLower(Name(g)), ToLower(f))}
\* MATCH (tech:Attack {stix_type:'attack-pattern'}) WHERE toLower(tech.name) CONTAINS toLower($f)
TechsMatching(f) ==
    {t \in OfType("attack-pattern") : Contains(ToLower(Name(t)), ToLower(f))}

\* the rows of b whose grouping key is k, and the grouping keys of b
Group(b, Key(_), k) == Filter(b, LAMBDA x : Key(x) = k)
GroupKeys(b, Key(_)) == Distinct([i \in 1..Len(b) |-> Key(b[i])])

\* collect(DISTINCT n.name) over the bindings b, n the node bound by Pick;
\* null values are skipped
CollectDistinctNames(b, Pick(_)) ==
    Distinct(Filter([i \in 1..Len(b) |-> Name(Pick(b[i]))], LAMBDA s : ~IsNull(s)))
\* collect(n.name)
CollectNames(b, Pick(_)) ==
    Filter([i \in 1..Len(b) |-> Name(Pick(b[i]))], LAMBDA s : ~IsNull(s))
\* count(DISTINCT n) and count(n): null bindings are not counted
CountDistinct(b, Pick(_)) ==
    Cardinality({Pick(b[i]) : i \in 1..Len(b)} \ {0})
Count(b, Pick(_)) == Cardinality({i \in 1..Len(b) : Pick(b[i]) # 0})

-----------------------------------------------------------------------------
(* The query catalog: each query maps (parameters, engine order) to the     *)
(* sequence of records the database returns                                 *)

\* literal ORDER BY / LIMIT values of the queries
B1Limit == 150
B2Limit == 100
B3Limit == 20
B4Limit == 10
B5Limit == 20
MaxHops == 6
C1Limit == 50
C2Limit == 50
D1Sample == 25
D2Limit == 20
D5Limit == 25
E3Sample == 25

\* ----- Part A -----
A1_nodes == <<[nodes |-> Cardinality(Attack)]>>
A1_relationships == <<[relationships |-> Cardinality(AttackRels)]>>

\* (mutant) entities without stix_type left out
A2_typed_only(ord) ==
    LET b == SeqOfSet({<<n>> : n \in {n \in Attack : graph.nodes[n].stix_type # "null"}}, ord)
        Key(x) == graph.nodes[x[1]].stix_type
        keys == GroupKeys(b, Key)
        rows == [k \in 1..Len(keys) |->
                    [type |-> keys[k], n |-> Len(Group(b, Key, keys[k]))]]
    IN StableSort(rows, LAMBDA x, y : x.n > y.n)

A2_object_types(ord) ==
    LET b == SeqOfSet({<<n>> : n \in Attack}, ord)
        Key(x) == graph.nodes[x[1]].stix_type
        keys == GroupKeys(b, Key)
        rows == [k \in 1..Len(keys) |->
                    [type |-> keys[k], n |-> Len(Group(b, Key, keys[k]))]]
    IN StableSort(rows, LAMBDA x, y : x.n > y.n)

A3_relationship_types(ord) ==
    LET b == SeqOfSet({<<r>> : r \in AttackRels}, ord)
        Key(x) == graph.rels[x[1]].rel_type
        keys == GroupKeys(b, Key)
        rows == [k \in 1..Len(keys) |->
                    [rel_type |-> keys[k], n |-> Len(Group(b, Key, keys[k]))]]
    IN StableSort(rows, LAMBDA x, y : x.n > y.n)

A4_tactic_technique_counts(ord) ==
    LET b == SeqOfSet({<<Dst(r), r, Src(r)>> : r \in
                 {r \in Rels : /\ graph.rels[r].type = "IN_TACTIC"
                               /\ graph.rels[r].dst \in OfType("x-mitre-tactic")
                               /\ graph.rels[r].src \in OfType("attack-pattern")}},
                 ord)
        Key(x) == Shortname(x[1])
        keys == GroupKeys(b, Key)
        rows == [k \in 1..Len(keys) |->
                    [tactic |-> keys[k],
                     techniques |-> Count(Group(b, Key, keys[k]), LAMBDA x : x[3])]]
    IN StableSort(rows, LAMBDA x, y : x.techniques > y.techniques)

\* (mutant) the two sums grouped by a key: no technique, no row
A5_grouped ==
    LET T == OfType("attack-pattern")
        Dep(t) == CoalesceFalse(graph.nodes[t].deprecated)
        Rev(t) == CoalesceFalse(graph.nodes[t].revoked)
    IN IF T = {} THEN <<>>
       ELSE <<[inactive |-> Cardinality({t \in T : Dep(t) \/ Rev(t)}),
               active |-> Cardinality({t \in T : ~Dep(t) /\ ~Rev(t)})]>>

\* an aggregation without grouping key: always exactly one row
A5_active_vs_inactive ==
    LET T == OfType("attack-pattern")
        Dep(t) == CoalesceFalse(graph.nodes[t].deprecated)
        Rev(t) == CoalesceFalse(graph.nodes[t].revoked)
    IN <<[inactive |-> Cardinality({t \in T : Dep(t) \/ Rev(t)}),
          active |-> Cardinality({t \in T : ~Dep(t) /\ ~Rev(t)})]>>

\* ----- Part B -----
B1_group_techniques(group, ord) ==
    LET b == SeqOfSet(
               UNION {UNION {{<<g, r, Dst(r), o, Dst(o)>> :
                                 o \in Opt(TacticRels(Dst(r)))} :
                             r \in OutRels(g, "uses", OfType("attack-pattern"))} :
                      g \in GroupsMatching(group)}, ord)
        rows == [i \in 1..Len(b) |->
                    [tactic |-> Shortname(b[i][5]), technique |-> Name(b[i][3])]]
    IN Limit(StableSort(rows, LAMBDA x, y :
                 \/ StrLess(x.tactic, y.tactic)
                 \/ (x.tactic = y.tactic /\ StrLess(x.technique, y.technique))),
             B1Limit)

B2_group_software(group, ord) ==
    LET b == SeqOfSet(
               UNION {{<<g, r, Dst(r)>> : r \in OutRels(g, "uses", Software)} :
                      g \in GroupsMatching(group)}, ord)
        rows == [i \in 1..Len(b) |->
                    [kind |-> graph.nodes[b[i][3]].stix_type,
                     software |-> Name(b[i][3])]]
    IN Limit(StableSort(rows, LAMBDA x, y :
                 \/ KindLess(x.kind, y.kind)
                 \/ (x.kind = y.kind /\ StrLess(x.software, y.software))),
             B2Limit)

B3_group_techniques_via_software(group, ord) ==
    LET b == SeqOfSet(
               UNION {UNION {{<<g, r, Dst(r), r2, Dst(r2)>> :
                                 r2 \in OutRels(Dst(r), "uses", OfType("attack-pattern"))} :
                             r \in OutRels(g, "uses", Software)} :
                      g \in GroupsMatching(group)}, ord)
        Key(x) == x[3]
        keys == GroupKeys(b, Key)
        rows == [k \in 1..Len(keys) |->
                    [software |-> Name(keys[k]),
                     techniques |->
                        CollectDistinctNames(Group(b, Key, keys[k]), LAMBDA x : x[5])]]
    IN Limit(StableSort(rows, LAMBDA x, y :
                 Len(x.techniques) > Len(y.techniques)), B3Limit)

B4_technique_users(tech, ord) ==
    LET b == SeqOfSet(
               UNION {{<<t, Src(r), r>> : r \in InRels(t, "uses", OfType("intrusion-set"))} :
                      t \in TechsMatching(tech)}, ord)
        Key(x) == Name(x[1])
        keys == GroupKeys(b, Key)
        rows == [k \in 1..Len(keys) |->
                    [technique |-> keys[k],
                     groups |->
                        CollectDistinctNames(Group(b, Key, keys[k]), LAMBDA x : x[2])]]
    IN Limit(rows, B4Limit)

B5_top_groups_by_techniques(ord) ==
    LET b == SeqOfSet(
               UNION {{<<g, r, Dst(r)>> :
                          r \in OutRels(g, "uses", OfType("attack-pattern"))} :
                      g \in OfType("intrusion-set")}, ord)
        Key(x) == Name(x[1])
        keys == GroupKeys(b, Key)
        rows == [k \in 1..Len(keys) |->
                    [group |-> keys[k],
                     techniques |->
                        CountDistinct(Group(b, Key, keys[k]), LAMBDA x : x[3])]]
    IN Limit(StableSort(rows, LAMBDA x, y : x.techniques > y.techniques), B5Limit)

\* one step along a generic relation, in either direction: <<relation, far node>>
Steps(n) ==
    {<<r, graph.rels[r].dst>> : r \in {r \in AttackRels : graph.rels[r].src = n}}
    \cup {<<r, graph.rels[r].src>> : r \in {r \in AttackRels : graph.rels[r].dst = n}}

\* the paths of P each extended by one hop to a node not yet on the path
Extend(P) ==
    UNION {{[nodes |-> Append(p.nodes, s[2]), rels |-> Append(p.rels, s[1])] :
               s \in {s \in Steps(p.nodes[Len(p.nodes)]) : s[2] \notin Range(p.nodes)}} :
           p \in P}

\* (mutant) the hop bound off by one
RECURSIVE Search_seven(_, _, _)
Search_seven(P, b, k) ==
    LET hit == {p \in P : p.nodes[Len(p.nodes)] = b}
    IN IF k > MaxHops + 1 \/ P = {} THEN {}
       ELSE IF hit # {} THEN hit
       ELSE Search_seven(Extend(P), b, k + 1)

\* breadth-first search: P holds every k-hop path from the start node
RECURSIVE Search(_, _, _)
Search(P, b, k) ==
    LET hit == {p \in P : p.nodes[Len(p.nodes)] = b}
    IN IF k > MaxHops \/ P = {} THEN {}
       ELSE IF hit # {} THEN hit
       ELSE Search(Extend(P), b, k + 1)

\* shortestPath((a)-[:ATTACK_REL*..6]-(b)) for a # b: the shortest paths of
\* at most MaxHops hops
ShortestPaths(a, b) == Search({[nodes |-> <<a>>, rels |-> <<>>]}, b, 0)

\* the one path shortestPath returns when several are shortest
PickPath(P, ord) ==
    CHOOSE p \in P : \A q \in P :
        q = p \/ (IF ord = "asc" THEN TupLess(p.rels, q.rels)
                                 ELSE TupLess(q.rels, p.rels))

\* the (a, b) rows of the cartesian product in B6
B6_pairs(g1, g2) == GroupsMatching(g1) \X GroupsMatching(g2)

\* shortestPath with the same start and end node: the database raises, unless
\* it is configured to skip such rows
B6_common_node(g1, g2) == \E x \in B6_pairs(g1, g2) : x[1] = x[2]

B6_shortest_connection_between_groups(g1, g2, ord) ==
    LET b == SeqOfSet({x \in B6_pairs(g1, g2) :
                          x[1] # x[2] /\ ShortestPaths(x[1], x[2]) # {}}, ord)
    IN [i \in 1..Len(b) |-> [p |-> PickPath(ShortestPaths(b[i][1], b[i][2]), ord)]]

\* ----- Part C -----
\* MATCH (co:Attack {stix_type:'course-of-action'})<-[:ATTACK_REL {rel_type:'mitigates'}]-(tech)
MitigationRels(t) == OutRels(t, "mitigates", OfType("course-of-action"))

C1_group_mitigations(group, ord) ==
    LET b == SeqOfSet(
               UNION {UNION {{<<g, r, Dst(r), m, Dst(m)>> : m \in MitigationRels(Dst(r))} :
                             r \in OutRels(g, "uses", OfType("attack-pattern"))} :
                      g \in GroupsMatching(group)}, ord)
        Key(x) == Name(x[3])
        keys == GroupKeys(b, Key)
        rows == [k \in 1..Len(keys) |->
                    [technique |-> keys[k],
                     mitigations |->
                        CollectDistinctNames(Group(b, Key, keys[k]), LAMBDA x : x[5])]]
    IN Limit(StableSort(rows, LAMBDA x, y : StrLess(x.technique, y.technique)),
             C1Limit)

\* (mutant) the mitigation matched by MATCH instead of OPTIONAL MATCH: a
\* technique without mitigation loses its row
C2_required_match(group, ord) ==
    LET b == SeqOfSet(
               UNION {UNION {{<<g, r, Dst(r), m, Dst(m)>> :
                                 m \in MitigationRels(Dst(r))} :
                             r \in OutRels(g, "uses", OfType("attack-pattern"))} :
                      g \in GroupsMatching(group)}, ord)
        Key(x) == x[3]
        keys == GroupKeys(b, Key)
        gaps == Filter(keys, LAMBDA t :
                    Count(Group(b, Key, t), LAMBDA x : x[5]) = 0)
        rows == [k \in 1..Len(gaps) |-> [unmitigated |-> Name(gaps[k])]]
    IN Limit(StableSort(rows, LAMBDA x, y : StrLess(x.unmitigated, y.unmitigated)),
             C2Limit)

C2_group_mitigation_gaps(group, ord) ==
    LET b == SeqOfSet(
               UNION {UNION {{<<g, r, Dst(r), m, Dst(m)>> :
                                 m \in Opt(MitigationRels(Dst(r)))} :
                             r \in OutRels(g, "uses", OfType("attack-pattern"))} :
                      g \in GroupsMatching(group)}, ord)
        Key(x) == x[3]
        keys == GroupKeys(b, Key)
        gaps == Filter(keys, LAMBDA t :
                    Count(Group(b, Key, t), LAMBDA x : x[5]) = 0)
        rows == [k \in 1..Len(gaps) |-> [unmitigated |-> Name(gaps[k])]]
    IN Limit(StableSort(rows, LAMBDA x, y : StrLess(x.unmitigated, y.unmitigated)),
             C2Limit)

\* (dc:Attack {stix_type: st})-[:ATTACK_REL {rel_type:'detects'}]->(tech)
DetectRels(t, st) == InRels(t, "detects", OfType(st))

C3_detection_coverage_top(limit, ord) ==
    LET b == SeqOfSet(
               UNION {{<<t, d, Src(d)>> :
                          d \in Opt(DetectRels(t, "x-mitre-data-component"))} :
                      t \in OfType("attack-pattern")}, ord)
        Key(x) == Name(x[1])
        keys == GroupKeys(b, Key)
        rows == [k \in 1..Len(keys) |->
                    [technique |-> keys[k],
                     detectors |-> Count(Group(b, Key, keys[k]), LAMBDA x : x[3])]]
    IN Limit(StableSort(rows, LAMBDA x, y : x.detectors > y.detectors), limit)

C4_detections_for_tech(tech, ord) ==
    LET b == SeqOfSet(
               UNION {UNION {{<<t, dc, Src(dc), ds, Src(ds)>> :
                                 ds \in Opt(DetectRels(t, "x-mitre-data-source"))} :
                             dc \in Opt(DetectRels(t, "x-mitre-data-component"))} :
                      t \in TechsMatching(tech)}, ord)
        Key(x) == Name(x[1])
        keys == GroupKeys(b, Key)
    IN [k \in 1..Len(keys) |->
          ("tech.name" :> keys[k])
          @@ [data_components |->
                 CollectDistinctNames(Group(b, Key, keys[k]), LAMBDA x : x[3]),
              data_sources |->
                 CollectDistinctNames(Group(b, Key, keys[k]), LAMBDA x : x[5])]]

\* ----- Part D -----
D1_tactic_mapping(tactic, ord) ==
    LET tac == ToLower(tactic)
        T == {t \in OfType("x-mitre-tactic") :
                 \/ StrEq(ToLower(Shortname(t)), tac)
                 \/ Contains(ToLower(Name(t)), tac)}
        b == SeqOfSet(
               UNION {{<<t, r, Src(r)>> : r \in
                          {r \in Rels : /\ graph.rels[r].type = "IN_TACTIC"
                                        /\ graph.rels[r].dst = t
                                        /\ graph.rels[r].src \in OfType("attack-pattern")}} :
                      t \in T}, ord)
        Key(x) == Shortname(x[1])
        keys == GroupKeys(b, Key)
    IN [k \in 1..Len(keys) |->
          [tactic |-> keys[k],
           sample_techniques |->
              Slice(CollectNames(Group(b, Key, keys[k]), LAMBDA x : x[3]), D1Sample),
           total |-> Count(Group(b, Key, keys[k]), LAMBDA x : x[3])]]

D2_subtechniques(ord) ==
    LET b == SeqOfSet(
               UNION {{<<s, r, Dst(r)>> :
                          r \in OutRels(s, "subtechnique-of", OfType("attack-pattern"))} :
                      s \in OfType("attack-pattern")}, ord)
        Key(x) == Name(x[3])
        keys == GroupKeys(b, Key)
        rows == [k \in 1..Len(keys) |->
                    [technique |-> keys[k],
                     subtechniques |->
                        CollectNames(Group(b, Key, keys[k]), LAMBDA x : x[1])]]
    IN Limit(StableSort(rows, LAMBDA x, y :
                 Len(x.subtechniques) > Len(y.subtechniques)), D2Limit)

\* 'windows','linux','macos','azure','aws','gcp','saas','office 365','network'
Platforms ==
    << <<119,105,110,100,111,119,115>>, <<108,105,110,117,120>>,
       <<109,97,99,111,115>>, <<97,122,117,114,101>>, <<97,119,115>>,
       <<103,99,112>>, <<115,97,97,115>>,
       <<111,102,102,105,99,101,32,51,54,53>>,
       <<110,101,116,119,111,114,107>> >>

\* 'enterprise-attack','mobile-attack','ics-attack'
Domains ==
    << <<101,110,116,101,114,112,114,105,115,101,45,97,116,116,97,99,107>>,
       <<109,111,98,105,108,101,45,97,116,116,97,99,107>>,
       <<105,99,115,45,97,116,116,97,99,107>> >>

\* label IN [p IN coalesce(l, []) | toLower(p)]
InLowered(label, l) ==
    \E i \in 1..Len(CoalesceList(l)) : ToLower(CoalesceList(l)[i]) = label

D3_techniques_by_platform(ord) ==
    LET b == SeqOfSet({x \in (1..Len(Platforms)) \X OfType("attack-pattern") :
                          InLowered(Platforms[x[1]], graph.nodes[x[2]].platforms)}, ord)
        Key(x) == x[1]
        keys == GroupKeys(b, Key)
        rows == [k \in 1..Len(keys) |->
                    [platform |-> Platforms[keys[k]],
                     technique_count |-> Len(Group(b, Key, keys[k]))]]
    IN StableSort(rows, LAMBDA x, y : x.technique_count > y.technique_count)

D4_domain_breakdown(ord) ==
    LET b == SeqOfSet({x \in (1..Len(Domains)) \X Attack :
                          InLowered(Domains[x[1]], graph.nodes[x[2]].domains)}, ord)
        Key(x) == x[1]
        keys == GroupKeys(b, Key)
        rows == [k \in 1..Len(keys) |->
                    [domain |-> Domains[keys[k]],
                     nodes |-> Len(Group(b, Key, keys[k]))]]
    IN StableSort(rows, LAMBDA x, y : x.nodes > y.nodes)

\* datetime() at the time of the query; timestamps are counted in days
Now == 1000

D5_recently_modified(days, ord) ==
    LET b == SeqOfSet({<<t>> : t \in
                 {t \in OfType("attack-pattern") :
                     /\ graph.nodes[t].modified # NullTime
                     /\ graph.nodes[t].modified >= Now - days}}, ord)
        rows == [i \in 1..Len(b) |->
                    ("technique" :> Name(b[i][1]))
                    @@ ("t.modified" :> graph.nodes[b[i][1]].modified)]
    IN Limit(StableSort(rows, LAMBDA x, y : x["t.modified"] > y["t.modified"]),
             D5Limit)

\* ----- Part E -----
E3_software_pivot(software, ord) ==
    LET S == {s \in Software : Contains(ToLower(Name(s)), ToLower(software))}
        b == SeqOfSet(
               UNION {UNION {{<<s, g, Src(g), t, Dst(t)>> :
                                 t \in Opt(OutRels(s, "uses", OfType("attack-pattern")))} :
                             g \in Opt(InRels(s, "uses", OfType("intrusion-set")))} :
                      s \in S}, ord)
        Key(x) == Name(x[1])
        keys == GroupKeys(b, Key)
    IN [k \in 1..Len(keys) |->
          [software |-> keys[k],
           groups |-> CollectDistinctNames(Group(b, Key, keys[k]), LAMBDA x : x[3]),
           techniques |->
              Slice(CollectDistinctNames(Group(b, Key, keys[k]), LAMBDA x : x[5]),
                    E3Sample)]]

-----------------------------------------------------------------------------
(* Parameters: DEFAULTS and the filter strings the callers pass *)

\* DEFAULTS: "APT29", "Credential Dumping", "defense-evasion", "FIN7", "Mimikatz", 180
DefaultGroup == <<65,80,84,50,57>>
DefaultTech == <<67,114,101,100,101,110,116,105,97,108,32,68,117,109,112,105,110,103>>
DefaultTactic == <<100,101,102,101,110,115,101,45,101,118,97,115,105,111,110>>
DefaultG1 == <<65,80,84,50,57>>
DefaultG2 == <<70,73,78,55>>
DefaultSoftware == <<77,105,109,105,107,97,116,122>>
DefaultRecentDays == 180
DefaultLimit == 25

\* the lower-case, upper-case and mixed-case spellings of a filter
Variants(f) == {ToLower(f), ToUpper(f), ToMixed(f)}

\* "apt", "fin7", "" and their spellings
GroupFilters == Variants(<<97,112,116>>) \cup Variants(<<102,105,110,55>>) \cup {<<>>}
\* "dump", "" and their spellings
TechFilters == Variants(<<100,117,109,112>>) \cup {<<>>}
\* "defense-evasion", "evasion" and their spellings
TacticFilters == Variants(DefaultTactic) \cup Variants(<<101,118,97,115,105,111,110>>)
\* "mimi", "zz" and their spellings
SoftwareFilters == Variants(<<109,105,109,105>>) \cup Variants(<<122,122>>)

\* the catalog in the order demo() walks it
Catalog ==
    <<"A1", "A2", "A3", "A4", "A5", "B1", "B2", "B3", "B4", "B5", "B6",
      "C1", "C2", "C3", "C4", "D1", "D2", "D3", "D4", "D5", "E3">>

\* a catalog call: the entry, its string filters f1/f2 and its integer
\* parameter n; qi is the index of the query() the method is executing
CallOf(e, f1, f2, n) == [n |-> n, f1 |-> f1, f2 |-> f2, entry |-> e, qi |-> 1]
NoCall == CallOf("none", NULL, NULL, 0)

\* a call with the default value of every parameter
DefaultCall(e) ==
    CASE e \in {"B1", "B2", "B3", "C1", "C2"} -> CallOf(e, DefaultGroup, NULL, 0)
      [] e \in {"B4", "C4"} -> CallOf(e, DefaultTech, NULL, 0)
      [] e = "B6" -> CallOf(e, DefaultG1, DefaultG2, 0)
      [] e = "C3" -> CallOf(e, NULL, NULL, DefaultLimit)
      [] e = "D1" -> CallOf(e, DefaultTactic, NULL, 0)
      [] e = "D5" -> CallOf(e, NULL, NULL, DefaultRecentDays)
      [] e = "E3" -> CallOf(e, DefaultSoftware, NULL, 0)
      [] OTHER -> CallOf(e, NULL, NULL, 0)

\* the calls an API user makes
GroupCalls(E) == {CallOf(e, f, NULL, 0) : e \in E, f \in GroupFilters}
PathCalls == {CallOf("B6", f, g, 0) : f \in GroupFilters, g \in GroupFilters}
Calls ==
    GroupCalls({"B1", "B2", "B3", "C1", "C2"})
    \cup PathCalls
    \cup {CallOf(e, f, NULL, 0) : e \in {"B4", "C4"}, f \in TechFilters}
    \cup {CallOf("D1", f, NULL, 0) : f \in TacticFilters}
    \cup {CallOf("E3", f, NULL, 0) : f \in SoftwareFilters}
    \cup {CallOf("C3", NULL, NULL, n) : n \in 0..MaxLimit}
    \cup {CallOf("D5", NULL, NULL, n) : n \in {0, DefaultRecentDays}}
    \cup {DefaultCall(e) : e \in {"A1", "A2", "A3", "A4", "A5", "B5", "D2", "D3", "D4"}}

\* number of query() invocations a catalog method makes
NQueries(e) == IF e = "A1" THEN 2 ELSE 1

\* what the engine leaves open: the order rows are produced in, and whether
\* shortestPath between a node and itself is refused
Engines == [ord : {"asc", "desc"}, forbid : BOOLEAN]

\* the query the database rejects at run time
QueryFails(c, eng) ==
    c.entry = "B6" /\ eng.forbid /\ B6_common_node(c.f1, c.f2)

\* the records s.run(q, **params) yields for call c
Eval(c, eng) ==
    CASE c.entry = "A1" -> IF c.qi = 1 THEN A1_nodes ELSE A1_relationships
      [] c.entry = "A2" -> A2_object_types(eng.ord)
      [] c.entry = "A3" -> A3_relationship_types(eng.ord)
      [] c.entry = "A4" -> A4_tactic_technique_counts(eng.ord)
      [] c.entry = "A5" -> A5_active_vs_inactive
      [] c.entry = "B1" -> B1_group_techniques(c.f1, eng.ord)
      [] c.entry = "B2" -> B2_group_software(c.f1, eng.ord)
      [] c.entry = "B3" -> B3_group_techniques_via_software(c.f1, eng.ord)
      [] c.entry = "B4" -> B4_technique_users(c.f1, eng.ord)
      [] c.entry = "B5" -> B5_top_groups_by_techniques(eng.ord)
      [] c.entry = "B6" -> B6_shortest_connection_between_groups(c.f1, c.f2, eng.ord)
      [] c.entry = "C1" -> C1_group_mitigations(c.f1, eng.ord)
      [] c.entry = "C2" -> C2_group_mitigation_gaps(c.f1, eng.ord)
      [] c.entry = "C3" -> C3_detection_coverage_top(c.n, eng.ord)
      [] c.entry = "C4" -> C4_detections_for_tech(c.f1, eng.ord)
      [] c.entry = "D1" -> D1_tactic_mapping(c.f1, eng.ord)
      [] c.entry = "D2" -> D2_subtechniques(eng.ord)
      [] c.entry = "D3" -> D3_techniques_by_platform(eng.ord)
      [] c.entry = "D4" -> D4_domain_breakdown(eng.ord)
      [] c.entry = "D5" -> D5_recently_modified(c.n, eng.ord)
      [] c.entry = "E3" -> E3_software_pivot(c.f1, eng.ord)

\* df_from_result: one row per record; the columns are the keys of the
\* records, so that no record leaves a table without columns
df_from_result(records) ==
    [rows |-> records,
     columns |-> UNION {DOMAIN records[i] : i \in 1..Len(records)}]

NoDf == [rows |-> <<>>, columns |-> {}]

-----------------------------------------------------------------------------
(* Graphs the database may hold *)

EmptyGraph == [nodes |-> <<>>, rels |-> <<>>]

\* the elements of the sequence s whose index is in I, in order
Pick(s, I) ==
    LET idx == {i \in 1..Len(s) : i \in I}
    IN [k \in 1..Cardinality(idx) |->
           s[CHOOSE i \in idx : Cardinality({j \in idx : j < i}) = k - 1]]

\* A small ATT&CK graph: groups APT29 (1) and FIN7 (2), techniques
\* "Credential Dumping" (3) and "T1003" (4), tactic defense-evasion (5),
\* malware Mimikatz (6), mitigation M1 (7), data component DC1 (8), data
\* source DS1 (9), an entity without stix_type (10) and a node that does not
\* carry the Attack label (11)
FixtureNodes ==
    << Node("intrusion-set", <<65,80,84,50,57>>),
       Node("intrusion-set", <<70,73,78,55>>),
       [Node("attack-pattern", DefaultTech) EXCEPT
           !.platforms = << <<87,105,110,100,111,119,115>>, <<108,105,110,117,120>> >>,
           !.domains = << <<101,110,116,101,114,112,114,105,115,101,45,97,116,116,97,99,107>> >>,
           !.modified = Now - DefaultRecentDays],
       [Node("attack-pattern", <<84,49,48,48,51>>) EXCEPT
           !.revoked = "true", !.deprecated = "false", !.modified = Now - DefaultRecentDays - 1],
       [Node("x-mitre-tactic", <<68,101,102,101,110,115,101,32,69,118,97,115,105,111,110>>) EXCEPT
           !.shortname = DefaultTactic],
       Node("malware", <<77,105,109,105,107,97,116,122>>),
       Node("course-of-action", <<77,49>>),
       Node("x-mitre-data-component", <<68,67,49>>),
       Node("x-mitre-data-source", <<68,83,49>>),
       Node("null", NULL),
       [Node("attack-pattern", <<84,49,48,48,51>>) EXCEPT !.label = "Other"] >>

FixtureCore ==
    << Rel("uses", 1, 3), Rel("uses", 1, 4), Rel("uses", 1, 6), Rel("uses", 6, 3),
       InTactic(3, 5), Rel("detects", 8, 3), Rel("detects", 9, 3),
       Rel("subtechnique-of", 4, 3) >>

\* relations a graph may or may not hold: FIN7 uses T1003; M1 mitigates
\* Credential Dumping in either direction; a second detects relation from DC1;
\* FIN7 uses Mimikatz; T1003 in the tactic
FixtureOptional ==
    << Rel("uses", 2, 4), Rel("mitigates", 7, 3), Rel("mitigates", 3, 7),
       Rel("detects", 8, 3), Rel("uses", 2, 6), InTactic(4, 5) >>

FixtureGraphs ==
    {[nodes |-> FixtureNodes, rels |-> FixtureCore \o Pick(FixtureOptional, I)] :
        I \in SUBSET (1..Len(FixtureOptional))}

Graphs == {EmptyGraph} \cup FixtureGraphs

-----------------------------------------------------------------------------
(* AttackKG: one catalog call, step by step *)

NoOut == [kind |-> "none", error |-> "none", tables |-> <<>>]

\* state after AttackKG.__init__ on a database holding one of the graphs G
InitWith(G) ==
    /\ graph \in G
    /\ driver = "open"
    /\ closes = 0
    /\ sessions = 0
    /\ pc = "idle"
    /\ call = NoCall
    /\ opens = 0
    /\ runs = 0
    /\ res = <<>>
    /\ err = "none"
    /\ raised = "none"
    /\ df = NoDf
    /\ rets = <<>>
    /\ out = NoOut
    /\ demoPc = 0
    /\ log = <<>>

Init == InitWith(Graphs)

\* catalog method c.entry starts: it calls self.query
StartCall(c) ==
    /\ pc = "idle"
    /\ driver = "open"
    /\ call' = c
    /\ pc' = "enter"
    /\ opens' = 0
    /\ runs' = 0
    /\ res' = <<>>
    /\ err' = "none"
    /\ raised' = "none"
    /\ df' = NoDf
    /\ rets' = <<>>
    /\ out' = NoOut
    /\ UNCHANGED <<graph, driver, closes, sessions>>

\* an API user invokes catalog method c.entry
Invoke(c) ==
    /\ demoPc = 0
    /\ StartCall(c)
    /\ UNCHANGED <<demoPc, log>>

\* with self.driver.session() as s:
SessionEnter ==
    /\ pc = "enter"
    /\ sessions' = sessions + 1
    /\ opens' = opens + 1
    /\ pc' = "run"
    /\ UNCHANGED <<graph, driver, closes, call, runs, res, err, raised, df, rets,
                   out, demoPc, log>>

\* res = s.run(q, **params): the connection may fail, the database may
\* reject the query, or the records are produced
Run ==
    /\ pc = "run"
    /\ runs' = runs + 1
    /\ \/ /\ err' = "ConnectionError"
          /\ raised' = "ConnectionError"
          /\ pc' = "exit"
          /\ res' = res
       \/ \E eng \in Engines :
            IF QueryFails(call, eng)
            THEN /\ err' = "QueryError"
                 /\ raised' = "QueryError"
                 /\ pc' = "exit"
                 /\ res' = res
            ELSE /\ res' = Eval(call, eng)
                 /\ pc' = "materialize"
                 /\ UNCHANGED <<err, raised>>
    /\ UNCHANGED <<graph, driver, closes, sessions, call, opens, df, rets, out,
                   demoPc, log>>

\* (mutant) a failure while consuming the stream is caught and an empty
\* DataFrame returned
Materialize_swallow ==
    /\ pc = "materialize"
    /\ \/ /\ df' = df_from_result(res)
          /\ UNCHANGED <<err, raised>>
       \/ /\ raised' = "ConnectionError"
          /\ err' = err
          /\ df' = NoDf
    /\ pc' = "exit"
    /\ UNCHANGED <<graph, driver, closes, sessions, call, opens, runs, res, rets,
                   out, demoPc, log>>

\* return df_from_result(res): consuming the stream may fail
Materialize ==
    /\ pc = "materialize"
    /\ \/ /\ df' = df_from_result(res)
          /\ UNCHANGED <<err, raised>>
       \/ /\ err' = "ConnectionError"
          /\ raised' = "ConnectionError"
          /\ df' = df
    /\ pc' = "exit"
    /\ UNCHANGED <<graph, driver, closes, sessions, call, opens, runs, res, rets,
                   out, demoPc, log>>

\* (mutant) the session closed by an s.close() after the body instead of a
\* with block: an exception skips it
SessionExit_leak ==
    /\ pc = "exit"
    /\ sessions' = IF err = "none" THEN sessions - 1 ELSE sessions
    /\ pc' = "return"
    /\ UNCHANGED <<graph, driver, closes, call, opens, runs, res, err, raised, df,
                   rets, out, demoPc, log>>

\* leaving the with block, by return or by exception: the session is closed
SessionExit ==
    /\ pc = "exit"
    /\ sessions' = sessions - 1
    /\ pc' = "return"
    /\ UNCHANGED <<graph, driver, closes, call, opens, runs, res, err, raised, df,
                   rets, out, demoPc, log>>

\* query() hands its DataFrame, or the exception, to the catalog method; the
\* method issues its next query, or returns, or lets the exception through
Return ==
    /\ pc = "return"
    /\ IF err # "none"
       THEN /\ out' = [kind |-> "error", error |-> err, tables |-> <<>>]
            /\ pc' = "idle"
            /\ UNCHANGED <<call, rets, opens, runs>>
       ELSE /\ rets' = Append(rets, df)
            /\ IF call.qi < NQueries(call.entry)
               THEN /\ call' = [call EXCEPT !.qi = call.qi + 1]
                    /\ pc' = "enter"
                    /\ opens' = 0
                    /\ runs' = 0
                    /\ out' = out
               ELSE /\ out' = [kind |-> "table", error |-> "none", tables |-> rets']
                    /\ pc' = "idle"
                    /\ UNCHANGED <<call, opens, runs>>
    /\ UNCHANGED <<graph, driver, closes, sessions, res, err, raised, df, demoPc, log>>

\* AttackKG.close()
Close ==
    /\ pc = "idle"
    /\ driver = "open"
    /\ demoPc = 0
    /\ driver' = "closed"
    /\ closes' = closes + 1
    /\ UNCHANGED <<graph, sessions, pc, call, opens, runs, res, err, raised, df,
                   rets, out, demoPc, log>>

Next ==
    \/ \E c \in Calls : Invoke(c)
    \/ SessionEnter
    \/ Run
    \/ Materialize
    \/ SessionExit
    \/ Return
    \/ Close

Spec == Init /\ [][Next]_vars

-----------------------------------------------------------------------------
(* Mitigation graphs: what C1 and C2 are asked about *)

\* the name "Tddd" of technique number i
TechName(i) == <<84, 48 + (i \div 100), 48 + ((i \div 10) % 10), 48 + (i % 10)>>

\* Groups APT29 (1) and FIN7 (2), techniques T001 (3), T002 (4) and a third
\* technique (5) named T003 or, again, T001, mitigations M1 (6) and M2 (7)
MitNodes(dup) ==
    << Node("intrusion-set", <<65,80,84,50,57>>),
       Node("intrusion-set", <<70,73,78,55>>),
       Node("attack-pattern", TechName(1)),
       Node("attack-pattern", TechName(2)),
       Node("attack-pattern", IF dup THEN TechName(1) ELSE TechName(3)),
       Node("course-of-action", <<77,49>>),
       Node("course-of-action", <<77,50>>) >>

MitCore == << Rel("uses", 1, 3), Rel("uses", 1, 4), Rel("uses", 2, 5) >>

\* mitigates relations in the direction the query follows (technique to
\* mitigation) and in the direction of the ATT&CK data (mitigation to technique)
MitOptional ==
    << Rel("mitigates", 3, 6), Rel("mitigates", 6, 3), Rel("mitigates", 5, 6),
       Rel("mitigates", 5, 7), Rel("mitigates", 3, 6), Rel("uses", 1, 5) >>

SmallMitGraphs ==
    {[nodes |-> MitNodes(dup), rels |-> MitCore \o Pick(MitOptional, I)] :
        dup \in BOOLEAN, I \in SUBSET (1..Len(MitOptional))}

\* Group APT29 (1) using n techniques (3..n+2); mitigation M1 (2) is linked
\* from all of them, from none, or from every second one
WideGraph(n, mit) ==
    [nodes |-> << Node("intrusion-set", <<65,80,84,50,57>>),
                  Node("course-of-action", <<77,49>>) >>
               \o [i \in 1..n |-> Node("attack-pattern", TechName(i))],
     rels |-> [i \in 1..n |-> Rel("uses", 1, i + 2)]
              \o Pick([i \in 1..n |-> Rel("mitigates", i + 2, 2)],
                      CASE mit = "all" -> 1..n
                        [] mit = "none" -> {}
                        [] OTHER -> {i \in 1..n : i % 2 = 0})]

WideGraphs ==
    {WideGraph(n, mit) : n \in (C1Limit - 1)..(C1Limit + MaxOver),
                         mit \in {"all", "none", "even"}}

MitGraphs == SmallMitGraphs \cup WideGraphs

InitMit == InitWith(MitGraphs)

NextMit ==
    \/ \E c \in GroupCalls({"C1", "C2"}) : Invoke(c)
    \/ SessionEnter
    \/ Run
    \/ Materialize
    \/ SessionExit
    \/ Return

SpecMit == InitMit /\ [][NextMit]_vars

-----------------------------------------------------------------------------
(* Path graphs: what B6 is asked about *)

\* Groups APT29 (1) and FIN7 (2) joined by a chain of k generic relations
\* through nodes 3..k+1, the middle one being the group Apt3; the relations
\* all point forward, or alternate; optionally both groups are also linked
\* to the tactic (k+2) by the tactic-membership relation
ChainGraph(k, alt, tac) ==
    LET P == <<1>> \o [i \in 1..(k - 1) |-> i + 2] \o <<2>>
    IN [nodes |->
          << Node("intrusion-set", <<65,80,84,50,57>>),
             Node("intrusion-set", <<70,73,78,55>>) >>
          \o [i \in 1..(k - 1) |->
                 IF i = k \div 2 THEN Node("intrusion-set", <<65,112,116,51>>)
                 ELSE Node("attack-pattern", TechName(i))]
          \o << [Node("x-mitre-tactic", <<68,101,102,101,110,115,101,32,69,118,97,115,105,111,110>>)
                   EXCEPT !.shortname = DefaultTactic] >>,
        rels |->
          [j \in 1..k |-> IF alt /\ j % 2 = 0 THEN Rel("uses", P[j + 1], P[j])
                          ELSE Rel("uses", P[j], P[j + 1])]
          \o (IF tac THEN << InTactic(1, k + 2), InTactic(2, k + 2) >> ELSE <<>>)]

ChainGraphs ==
    {ChainGraph(k, alt, tac) : k \in 1..MaxChain, alt \in BOOLEAN, tac \in BOOLEAN}

PathGraphs ==
    ChainGraphs
    \cup {[nodes |-> FixtureNodes, rels |-> FixtureCore \o Pick(FixtureOptional, I)] :
             I \in SUBSET {1, 5}}

\* "apt", "fin7", "apt29" and their spellings
PathFilters ==
    Variants(<<97,112,116>>) \cup Variants(<<102,105,110,55>>)
    \cup Variants(<<97,112,116,50,57>>)

InitPath == InitWith(PathGraphs)

NextPath ==
    \/ \E f \in PathFilters, g \in PathFilters : Invoke(CallOf("B6", f, g, 0))
    \/ SessionEnter
    \/ Run
    \/ Materialize
    \/ SessionExit
    \/ Return

SpecPath == InitPath /\ [][NextPath]_vars

-----------------------------------------------------------------------------
(* demo(): every catalog entry in turn, then close *)

DemoDone == Len(Catalog) + 2

DemoGraphs ==
    {EmptyGraph}
    \cup {[nodes |-> FixtureNodes, rels |-> FixtureCore \o Pick(FixtureOptional, I)] :
             I \in {{}, {1}, {3}, 1..Len(FixtureOptional)}}

\* before demo() runs there is no AttackKG
InitDemo ==
    /\ graph \in DemoGraphs
    /\ driver = "none"
    /\ closes = 0
    /\ sessions = 0
    /\ pc = "idle"
    /\ call = NoCall
    /\ opens = 0
    /\ runs = 0
    /\ res = <<>>
    /\ err = "none"
    /\ raised = "none"
    /\ df = NoDf
    /\ rets = <<>>
    /\ out = NoOut
    /\ demoPc = 0
    /\ log = <<>>

\* atk = AttackKG()
DemoStart ==
    /\ demoPc = 0
    /\ driver = "none"
    /\ driver' = "open"
    /\ demoPc' = 1
    /\ UNCHANGED <<graph, closes, sessions, pc, call, opens, runs, res, err,
                   raised, df, rets, out, log>>

\* the next atk.<entry>(...) of the try block, with the DEFAULTS
DemoCall ==
    /\ demoPc \in 1..Len(Catalog)
    /\ Len(log) = demoPc - 1
    /\ StartCall(DefaultCall(Catalog[demoPc]))
    /\ log' = Append(log, [entry |-> Catalog[demoPc], printed |-> <<>>])
    /\ demoPc' = demoPc

\* _print_section for each DataFrame the entry returned
DemoPrint ==
    /\ demoPc \in 1..Len(Catalog)
    /\ Len(log) = demoPc
    /\ pc = "idle"
    /\ out.kind = "table"
    /\ log' = [log EXCEPT ![demoPc].printed =
                  [i \in 1..Len(out.tables) |->
                      IF out.tables[i].rows = <<>> THEN "(empty)" ELSE "table"]]
    /\ demoPc' = demoPc + 1
    /\ UNCHANGED <<graph, driver, closes, sessions, pc, call, opens, runs, res,
                   err, raised, df, rets, out>>

\* (mutant) atk.close() as the last statement of the try block instead of a
\* finally clause: an exception leaves demo() without closing
DemoFinally_on_success ==
    /\ pc = "idle"
    /\ \/ /\ demoPc = Len(Catalog) + 1
          /\ driver' = "closed"
          /\ closes' = closes + 1
       \/ /\ demoPc \in 1..Len(Catalog)
          /\ out.kind = "error"
          /\ UNCHANGED <<driver, closes>>
    /\ demoPc' = DemoDone
    /\ UNCHANGED <<graph, sessions, pc, call, opens, runs, res, err, raised, df,
                   rets, out, log>>

\* finally: atk.close(), after the last entry or with an exception in flight
DemoFinally ==
    /\ pc = "idle"
    /\ \/ demoPc = Len(Catalog) + 1
       \/ demoPc \in 1..Len(Catalog) /\ out.kind = "error"
    /\ driver' = "closed"
    /\ closes' = closes + 1
    /\ demoPc' = DemoDone
    /\ UNCHANGED <<graph, sessions, pc, call, opens, runs, res, err, raised, df,
                   rets, out, log>>

NextDemo ==
    \/ DemoStart
    \/ DemoCall
    \/ SessionEnter
    \/ Run
    \/ Materialize
    \/ SessionExit
    \/ Return
    \/ DemoPrint
    \/ DemoFinally

SpecDemo == InitDemo /\ [][NextDemo]_vars

-----------------------------------------------------------------------------
(* Properties *)

\* a catalog call has returned to its caller (a table or an exception)
Returned(e) == pc = "idle" /\ call.entry = e /\ out.kind # "none"
\* a catalog call has returned a table; its rows
ReturnedTable(e) == pc = "idle" /\ call.entry = e /\ out.kind = "table"
Rows == out.tables[1].rows

\* C1: every query() opens exactly one session, holds it only while the query
\* runs and its records are materialized, and has released it when it
\* returns or raises; between catalog calls no session is open.
C1_SessionReleased ==
    /\ sessions \in {0, 1}
    /\ pc \in {"run", "materialize", "exit"} => (sessions = 1 /\ opens = 1)
    /\ pc \in {"idle", "enter", "return"} => sessions = 0
    /\ pc = "return" => opens = 1
    /\ (pc = "idle" /\ out.kind # "none") => opens = 1

\* a query the database rejected has returned to the caller
C1_Witness ==
    pc = "idle" /\ out.kind = "error" /\ out.error = "QueryError" /\ sessions = 0

\* C2: a query() makes exactly one s.run attempt; an exception raised by the
\* database reaches the caller as raised, and never becomes a table; a call
\* without exception returns one table per query.
C2_SingleAttempt ==
    /\ runs <= 1
    /\ pc \in {"materialize", "exit", "return"} => runs = 1
    /\ (pc = "idle" /\ out.kind # "none") => runs = 1
    /\ out.kind = "error" => (raised # "none" /\ out.error = raised)
    /\ (pc = "idle" /\ raised # "none") => out.kind = "error"
    /\ (pc = "idle" /\ out.kind = "table") =>
          (raised = "none" /\ Len(out.tables) = NQueries(call.entry))

\* a connection failure has reached the caller after a single attempt
C2_Witness ==
    pc = "idle" /\ out.kind = "error" /\ out.error = "ConnectionError" /\ runs = 1

\* the only exception a call on this graph may end with: the connection failed
OnlyConnectionErrors == out.kind = "error" => out.error = "ConnectionError"

DetectorsOf(nm) ==
    {d \in OfType("x-mitre-data-component") :
        \E r \in AttackRels :
            /\ graph.rels[r].rel_type = "detects"
            /\ graph.rels[r].src = d
            /\ graph.rels[r].dst \in OfType("attack-pattern")
            /\ Name(graph.rels[r].dst) = nm}

\* C7 as claimed: each row of C3 gives the number of distinct data components
\* detecting the technique, rows are in descending order of that number and
\* there are at most `limit` of them; techniques without detector show 0.
C7_DistinctDetectors ==
    ReturnedTable("C3") =>
        /\ Len(Rows) <= call.n
        /\ \A i \in 1..Len(Rows) :
              Rows[i].detectors = Cardinality(DetectorsOf(Rows[i].technique))
        /\ \A i \in 1..(Len(Rows) - 1) : Rows[i].detectors >= Rows[i + 1].detectors

RECURSIVE SumN(_)
SumN(rows) == IF rows = <<>> THEN 0 ELSE rows[1].n + SumN(Tail(rows))

\* C8: the counts of A2 add up to the node count of A1; each stix_type
\* (the missing one included) has exactly one row, which counts the entities
\* of that type; rows are in descending order of count.
C8_TypeCountsSum ==
    ReturnedTable("A2") =>
        /\ SumN(Rows) = A1_nodes[1].nodes
        /\ \A n \in Attack :
              Cardinality({i \in 1..Len(Rows) :
                  Rows[i].type = graph.nodes[n].stix_type}) = 1
        /\ \A i \in 1..Len(Rows) :
              Rows[i].n = Cardinality({n \in Attack :
                              graph.nodes[n].stix_type = Rows[i].type})
        /\ \A i \in 1..(Len(Rows) - 1) : Rows[i].n >= Rows[i + 1].n

\* A2 has returned a table with a row for the entities without stix_type
C8_Witness ==
    /\ ReturnedTable("A2")
    /\ Len(Rows) >= 3
    /\ \E i \in 1..Len(Rows) : Rows[i].type = "null"

\* the entries that take a substring filter
FilterEntries == {"B1", "B2", "B3", "B4", "B6", "C1", "C2", "C4", "D1", "E3"}

\* the call c with its filters respelled
Respelled(c) ==
    {[c EXCEPT !.f1 = v, !.f2 = w] : v \in Variants(c.f1), w \in Variants(c.f2)}

\* C9: whatever an entry with a substring filter returned (rows, or the
\* database's rejection of the query), it also returns for every spelling of
\* its filters that differs only in letter case.
C9_CaseInsensitive ==
    (pc = "idle" /\ call.entry \in FilterEntries /\ out.kind # "none") =>
        \A c \in Respelled(call) \ {call} :
            /\ out.kind = "table" =>
                  \E eng \in Engines : ~QueryFails(c, eng) /\ Eval(c, eng) = Rows
            /\ out.error = "QueryError" =>
                  \E eng \in Engines : QueryFails(c, eng)

\* D1 has returned rows for the upper-case spelling of a tactic filter
C9_Witness ==
    /\ ReturnedTable("D1")
    /\ call.f1 = ToUpper(DefaultTactic)
    /\ Rows # <<>>

-----------------------------------------------------------------------------
(* Properties of the mitigation queries (SpecMit) *)

\* the techniques used, in one 'uses' hop, by a group matching filter f
UsedTechs(f) ==
    {t \in OfType("attack-pattern") :
        \E r \in AttackRels :
            /\ graph.rels[r].rel_type = "uses"
            /\ graph.rels[r].src \in GroupsMatching(f)
            /\ graph.rels[r].dst = t}

\* the mitigations with a mitigates relation into technique t
IncomingMitigations(t) ==
    {m \in OfType("course-of-action") :
        \E r \in AttackRels :
            /\ graph.rels[r].rel_type = "mitigates"
            /\ graph.rels[r].src = m
            /\ graph.rels[r].dst = t}

\* technique t has a row in C1: some mitigates relation leads from it to a mitigation
HasMitigation(t) ==
    \E r \in AttackRels :
        /\ graph.rels[r].rel_type = "mitigates"
        /\ graph.rels[r].src = t
        /\ graph.rels[r].dst \in OfType("course-of-action")

\* the technique column of C1 for filter f
C1Techniques(f) ==
    LET rows == C1_group_mitigations(f, "asc")
    IN {rows[i].technique : i \in 1..Len(rows)}

C2Names == {Rows[i].unmitigated : i \in 1..Len(Rows)}

\* C2 and C1 split the techniques used by the groups matching f
SplitsUsed(f) ==
    /\ C2Names = {Name(t) : t \in UsedTechs(f)} \ C1Techniques(f)
    /\ C2Names \cap C1Techniques(f) = {}
    /\ {Name(t) : t \in UsedTechs(f)} \subseteq (C1Techniques(f) \cup C2Names)

\* C4 as claimed: for every graph and filter, the names C2 returns are the
\* techniques used by the matched groups that are absent from C1's technique
\* column; none is in both results and each is in one of them.
C4_GapsComplementMitigated == ReturnedTable("C2") => SplitsUsed(call.f1)

\* no two techniques used by the matched groups share a name, and neither
\* result is cut by its LIMIT
NamesUniqueAndUncut(f) ==
    /\ \A t, u \in UsedTechs(f) : Name(t) = Name(u) => t = u
    /\ Cardinality({t \in UsedTechs(f) : HasMitigation(t)}) <= C1Limit
    /\ Cardinality({t \in UsedTechs(f) : ~HasMitigation(t)}) <= C2Limit

\* C4 as amended: the same, for the graphs and filters where the used
\* techniques have pairwise distinct names, at most 50 of them have a
\* mitigation and at most 50 have none.
C4_GapsComplementWhenUncut ==
    (ReturnedTable("C2") /\ NamesUniqueAndUncut(call.f1)) => SplitsUsed(call.f1)

\* C2 has returned gaps for a filter for which C1 has rows as well
C4_Witness ==
    /\ ReturnedTable("C2")
    /\ NamesUniqueAndUncut(call.f1)
    /\ Rows # <<>>
    /\ C1Techniques(call.f1) # {}

\* C5 as claimed: each row of C1 pairs a technique used by a matched group
\* with the deduplicated names of the mitigations that have a mitigates
\* relation into it; every such technique has a row (up to the cap of 50);
\* rows are in ascending order of technique name.
C5_IncomingMitigations ==
    ReturnedTable("C1") =>
        /\ Len(Rows) <= C1Limit
        /\ \A i \in 1..(Len(Rows) - 1) : StrLess(Rows[i].technique, Rows[i + 1].technique)
        /\ \A i \in 1..Len(Rows) :
              /\ Range(Rows[i].mitigations) =
                    {Name(m) : m \in UNION {IncomingMitigations(t) :
                        t \in {t \in UsedTechs(call.f1) : Name(t) = Rows[i].technique}}}
              /\ \A j, k \in 1..Len(Rows[i].mitigations) :
                    Rows[i].mitigations[j] = Rows[i].mitigations[k] => j = k
        /\ Cardinality(UsedTechs(call.f1)) <= C1Limit =>
              \A t \in UsedTechs(call.f1) :
                  IncomingMitigations(t) # {} =>
                      \E i \in 1..Len(Rows) : Rows[i].technique = Name(t)

-----------------------------------------------------------------------------
(* Properties of the shortest-path query (SpecPath) *)

\* the nodes one generic relation away from the nodes of F, either direction
Neighbours(F) ==
    {graph.rels[r].dst : r \in {r \in AttackRels : graph.rels[r].src \in F}}
    \cup {graph.rels[r].src : r \in {r \in AttackRels : graph.rels[r].dst \in F}}

\* undirected distance from the node set `seen` (at distance <= k from the
\* start) to b over generic relations; -1 when b cannot be reached
RECURSIVE DistFrom(_, _, _)
DistFrom(seen, b, k) ==
    IF b \in seen THEN k
    ELSE IF Neighbours(seen) \subseteq seen THEN -1
    ELSE DistFrom(seen \cup Neighbours(seen), b, k + 1)

Dist(a, b) == DistFrom({a}, b, 0)

\* p is a path of the graph along generic relations taken in either direction
IsGenericPath(p) ==
    /\ Len(p.nodes) = Len(p.rels) + 1
    /\ \A j \in 1..Len(p.rels) :
          /\ p.rels[j] \in AttackRels
          /\ \/ Src(p.rels[j]) = p.nodes[j] /\ Dst(p.rels[j]) = p.nodes[j + 1]
             \/ Dst(p.rels[j]) = p.nodes[j] /\ Src(p.rels[j]) = p.nodes[j + 1]

\* C6: every path B6 returns joins a group matching g1 to a group matching
\* g2 along generic relations only, has at most 6 hops and is as short as any
\* path between its endpoints; a pair of distinct matched groups farther
\* apart than 6 hops, or not connected, has no row; and the query raises
\* nothing unless the connection fails or one group matches both filters.
C6_ShortestWithinSix ==
    /\ ReturnedTable("B6") =>
          /\ \A i \in 1..Len(Rows) :
                LET p == Rows[i].p
                IN /\ IsGenericPath(p)
                   /\ Len(p.rels) <= MaxHops
                   /\ <<p.nodes[1], p.nodes[Len(p.nodes)]>> \in B6_pairs(call.f1, call.f2)
                   /\ Len(p.rels) = Dist(p.nodes[1], p.nodes[Len(p.nodes)])
          /\ \A x \in B6_pairs(call.f1, call.f2) :
                (x[1] # x[2] /\ (Dist(x[1], x[2]) > MaxHops \/ Dist(x[1], x[2]) = -1)) =>
                    ~\E i \in 1..Len(Rows) :
                        /\ Rows[i].p.nodes[1] = x[1]
                        /\ Rows[i].p.nodes[Len(Rows[i].p.nodes)] = x[2]
    /\ (Returned("B6") /\ out.error = "QueryError") => B6_common_node(call.f1, call.f2)

\* B6 has returned an empty table for two groups that are 7 hops apart
C6_Witness ==
    /\ ReturnedTable("B6")
    /\ Rows = <<>>
    /\ \E x \in B6_pairs(call.f1, call.f2) : Dist(x[1], x[2]) = MaxHops + 1

-----------------------------------------------------------------------------
(* Properties of demo() (SpecDemo) *)

\* C10: demo() invokes the catalog entries in the order A1..E3, each one
\* after the sessions of the one before are released; once an entry raised,
\* no further entry is invoked and the exception stays with demo()'s caller;
\* the driver is closed once, with no session open, on every way out.
C10_DemoSequential ==
    /\ [](\A i \in 1..Len(log) : i <= Len(Catalog) /\ log[i].entry = Catalog[i])
    /\ [][log' # log => (sessions = 0 /\ pc = "idle")]_vars
    /\ [][(pc = "idle" /\ out.kind = "error") =>
             (log' = log /\ out' = out /\ demoPc' = DemoDone)]_vars
    /\ [](closes <= 1)
    /\ [][closes' # closes => (sessions = 0 /\ pc = "idle" /\ demoPc' = DemoDone)]_vars
    /\ [](demoPc = DemoDone => (closes = 1 /\ driver = "closed" /\ sessions = 0))

\* demo() has ended with the exception of its fifth entry
C10_Witness ==
    /\ demoPc = DemoDone
    /\ out.kind = "error"
    /\ Len(log) = 5
    /\ closes = 1

====
